---- MODULE Spec2Model ----
(***************************************************************************)
(* A model of the three fitted components of the piaa feature pipeline:    *)
(* FeatureSelector (src/features/feature_selection.py), FeatureFilter      *)
(* (src/features/feature_filter.py) and FeatureEngineer                    *)
(* (src/features/feature_engineering.py).                                  *)
(*                                                                         *)
(* Each component is an object with its own fields; every public method is *)
(* one action.  The three components share no state, so each has its own   *)
(* specification (SpecSelector, SpecFilter, SpecEngineer) over the common  *)
(* variable tuple.                                                         *)
(*                                                                         *)
(* Numbers.  Scores are small naturals and an aggregated score (a mean) is *)
(* the exact fraction [num, den].  Table cells are naturals or NA.  The    *)
(* numeric encoding X_numeric is kept in half units (every cell doubled)   *)
(* so that a median of an even number of cells stays integral; Pearson     *)
(* correlation is invariant under that scaling.  Rates and correlation     *)
(* limits are percentages (0.95 is 95) and are compared exactly by cross   *)
(* multiplication.                                                         *)
(***************************************************************************)
EXTENDS Integers, Sequences, FiniteSets, TLC

VARIABLES
    \* FeatureSelector
    selector_config,      \* FeatureSelectionConfig given to __init__
    fit_X,                \* the table the caller passes to FeatureSelector.fit
    feature_names,        \* self.feature_names
    X_numeric,            \* self.X_numeric
    feature_scores,       \* self.feature_scores : method -> feature -> score
    feature_rankings,     \* self.feature_rankings : method -> ranked features
    selected_features,    \* self.selected_features
    removed_redundant,    \* self.removed_redundant
    feature_summary,      \* self.feature_summary (None before the first fit)
    selector_result,      \* outcome of the last FeatureSelector call
    \* FeatureFilter
    filter_kwargs,        \* keyword arguments of the last FeatureFilterConfig(...)
    filter_config,        \* self.config (None while no filter has been built)
    filter_df,            \* the table and target_col of the last FeatureFilter.fit
    filter_report,        \* self.filter_report
    removed_features,     \* self.removed_features
    kept_features,        \* self.kept_features
    filter_result,        \* outcome of the last FeatureFilter call
    \* FeatureEngineer
    engineer_config,      \* self.config (None while no engineer has been built)
    transform_stats,      \* self.transform_stats
    feature_mapping,      \* self.feature_mapping
    binary_features,      \* self.binary_features
    target_col,           \* self.target_col
    engineer_fits,        \* number of fit_transform calls made so far
    engineer_fitted,      \* the last fit_transform call: its table, columns, output
    engineer_result       \* the last FeatureEngineer call and what it returned

selectorVars == <<selector_config, fit_X, feature_names, X_numeric,
                  feature_scores, feature_rankings, selected_features,
                  removed_redundant, feature_summary, selector_result>>

filterVars == <<filter_kwargs, filter_config, filter_df, filter_report, removed_features,
                kept_features, filter_result>>

engineerVars == <<engineer_config, transform_stats, feature_mapping, binary_features,
                  target_col, engineer_fits, engineer_fitted, engineer_result>>

vars == <<selectorVars, filterVars, engineerVars>>

\* An optional value is a sequence of length at most one.
None == <<>>
Some(x) == <<x>>

\* a missing cell of a table (cells that hold a value are naturals)
NA == -1

----------------------------------------------------------------------------
(* Bounds of the model *)

NFeat == 3        \* columns of the table given to FeatureSelector.fit
NRows == 3        \* rows of the table given to FeatureSelector.fit
NFilterRows == 4  \* rows of the table given to FeatureFilter.fit
MaxScore == 1     \* a scoring method returns a score in 0..MaxScore

Rows == 1..NRows
Features == 1..NFeat

----------------------------------------------------------------------------
(* Generic helpers *)

RECURSIVE SeqSum(_)
SeqSum(s) == IF s = <<>> THEN 0 ELSE Head(s) + SeqSum(Tail(s))

Range(s) == {s[i] : i \in DOMAIN s}

Take(s, n) == SubSeq(s, 1, IF n < Len(s) THEN n ELSE Len(s))

\* position of the first occurrence of x in s (list.index)
IndexOf(s, x) == CHOOSE i \in DOMAIN s : s[i] = x /\ \A j \in 1..(i - 1) : s[j] # x

\* the non-missing cells of a column, in row order (Series.dropna)
RECURSIVE DropNaFrom(_, _)
DropNaFrom(col, r) ==
    IF r > Len(col) THEN <<>>
    ELSE IF col[r] = NA THEN DropNaFrom(col, r + 1)
         ELSE <<col[r]>> \o DropNaFrom(col, r + 1)

DropNa(col) == DropNaFrom(col, 1)

\* ascending insertion sort of a sequence of integers
RECURSIVE InsertSorted(_, _)
InsertSorted(s, x) ==
    IF s = <<>> THEN <<x>>
    ELSE IF x <= Head(s) THEN <<x>> \o s
         ELSE <<Head(s)>> \o InsertSorted(Tail(s), x)

RECURSIVE SortAsc(_)
SortAsc(s) == IF s = <<>> THEN <<>> ELSE InsertSorted(SortAsc(Tail(s)), Head(s))

----------------------------------------------------------------------------
(* FeatureSelector: inputs *)

\* The columns a caller's table is built from, as functions of the row: rising,
\* falling, alternating, constant, and rising with the second cell missing.
ColumnData(kind) ==
    [r \in Rows |->
        CASE kind = "ramp"     -> r
          [] kind = "falling"  -> NRows + 1 - r
          [] kind = "zigzag"   -> r % 2
          [] kind = "constant" -> 1
          [] kind = "gap"      -> IF r = 2 THEN NA ELSE 2 * r]

\* column kinds, repeated cyclically over the columns of the table
Layouts ==
    {<<"ramp", "falling", "zigzag">>,
     <<"zigzag", "ramp", "gap">>,
     <<"ramp", "constant", "falling">>,
     <<"falling", "gap", "ramp">>}

SelectorTables ==
    {[f \in Features |-> ColumnData(l[((f - 1) % Len(l)) + 1])] : l \in Layouts}

\* the names fit knows how to score with
KnownMethods == {"mutual_info", "tree_importance", "correlation", "statistical"}

\* config.methods: two known names with a name fit does not know between them
SelectorMethods == <<"mutual_info", "no_such_method", "correlation">>

ScoreVectors == [Features -> 0..MaxScore]

\* score vectors with at most one column above zero
PeakVectors ==
    {[f \in Features |-> 0]}
        \cup {[f \in Features |-> IF f = p THEN MaxScore ELSE 0] : p \in Features}

\* the score nan in a vector of scores
NaNScore == -1

\* a column of the numeric table with one value in every row
IsConstantColumn(col) == \A i, j \in DOMAIN col : col[i] = col[j]

\* _correlation_scores: abs(spearmanr(column, y)), which is nan for a constant
\* column
CorrelationVectors(Xn) ==
    {[f \in Features |-> IF IsConstantColumn(Xn[f]) THEN NaNScore ELSE p[f]] :
        p \in PeakVectors}

\* what one scoring method does in one fit: raise, or return a score per column
\* (any vector for mutual_info, a peak vector with nan for the constant columns
\* for correlation)
Raise == <<>>
MethodOutcomes(m, Xn) ==
    IF m \notin KnownMethods
    THEN {Raise}   \* the else branch: continue, which records nothing either
    ELSE {Raise} \cup (IF m = "mutual_info" THEN ScoreVectors
                       ELSE CorrelationVectors(Xn))

\* what the configured methods do in one fit: an outcome for each
RECURSIVE FitOutcomes(_, _)
FitOutcomes(methods, Xn) ==
    IF methods = <<>> THEN {<<>>}
    ELSE {(Head(methods) :> first) @@ rest :
            first \in MethodOutcomes(Head(methods), Xn),
            rest \in FitOutcomes(Tail(methods), Xn)}

DefaultMaxCorrelation == 95

SelectorConfigs ==
    [methods : {SelectorMethods},
     top_k : {None, Some(0), Some(2)},
     threshold : {None, Some(1)},
     max_correlation : {DefaultMaxCorrelation, 100}]

----------------------------------------------------------------------------
(* FeatureSelector._prepare_features *)

\* DataFrame.median of one column, in half units; missing for an all-missing column
MedianTwice(col) ==
    LET s == SortAsc(DropNa(col))
        n == Len(s)
    IN  IF n = 0 THEN NA
        ELSE IF n % 2 = 1 THEN 2 * s[(n + 1) \div 2]
             ELSE s[n \div 2] + s[n \div 2 + 1]

\* numeric tables only: there is no object column to recode; NaN cells take the
\* column median (an all-missing column stays missing)
PrepareFeatures(X) ==
    [f \in DOMAIN X |->
        [r \in DOMAIN X[f] |->
            IF X[f][r] = NA THEN MedianTwice(X[f]) ELSE 2 * X[f][r]]]

----------------------------------------------------------------------------
(* np.corrcoef on two columns of X_numeric *)

HasNaN(x) == \E r \in DOMAIN x : x[r] = NA

RECURSIVE DotFrom(_, _, _)
DotFrom(x, y, r) == IF r > Len(x) THEN 0 ELSE x[r] * y[r] + DotFrom(x, y, r + 1)

ColSum(x) == DotFrom(x, [r \in DOMAIN x |-> 1], 1)
ColDot(x, y) == DotFrom(x, y, 1)

\* n^2 times the covariance / variance of two columns of n cells: the common
\* factor cancels in the ratio
CovN(x, y) == Len(x) * ColDot(x, y) - ColSum(x) * ColSum(y)
VarN(x) == CovN(x, x)

\* corrcoef is cov / sqrt(var_x * var_y): NaN when a column holds a NaN or is
\* constant (0/0)
CorrIsNaN(x, y) == HasNaN(x) \/ HasNaN(y) \/ VarN(x) = 0 \/ VarN(y) = 0

NaN == [num |-> 0, den |-> 0]

\* the square of the coefficient as the exact fraction [num, den], or NaN;
\* abs(corr) is its square root
AbsCorr(x, y) ==
    IF CorrIsNaN(x, y) THEN NaN
    ELSE [num |-> CovN(x, y) * CovN(x, y), den |-> VarN(x) * VarN(y)]

\* abs(corr) > limit, limit in percent; a NaN compares False
AbsCorrExceeds(x, y, limit) ==
    /\ ~CorrIsNaN(x, y)
    /\ \/ limit < 0
       \/ CovN(x, y) * CovN(x, y) * 10000 > limit * limit * VarN(x) * VarN(y)

----------------------------------------------------------------------------
(* FeatureSelector._select_features *)

\* the scores the methods hold for one feature, as a sequence
RECURSIVE ScoresOf(_, _, _)
ScoresOf(scores, methods, feature) ==
    IF methods = {} THEN <<>>
    ELSE LET m == CHOOSE x \in methods : TRUE
         IN  (IF feature \in DOMAIN scores[m] THEN <<scores[m][feature]>> ELSE <<>>)
             \o ScoresOf(scores, methods \ {m}, feature)

\* np.mean of the scores, for the features that have at least one
AggregatedScores(scores, names) ==
    LET held == [i \in DOMAIN names |-> ScoresOf(scores, DOMAIN scores, names[i])]
    IN  [f \in {names[i] : i \in {j \in DOMAIN names : held[j] # <<>>}} |->
            LET s == held[IndexOf(names, f)]
            IN  IF NaNScore \in Range(s) THEN NaN
                ELSE [num |-> SeqSum(s), den |-> Len(s)]]

ScoreLess(a, b) == a.num * b.den < b.num * a.den

\* "key(a) < key(b)", the one comparison list.sort makes; False with a nan
KeyLess(agg, a, b) == ScoreLess(agg[a], agg[b])

Reverse(s) == [i \in 1..Len(s) |-> s[Len(s) + 1 - i]]

\* list.sort, count_run: the last position of the run that starts the list,
\* strictly descending or else non-descending
RECURSIVE RunEnd(_, _, _, _)
RunEnd(agg, s, k, descending) ==
    IF k < Len(s) /\ (KeyLess(agg, s[k + 1], s[k]) <=> descending)
    THEN RunEnd(agg, s, k + 1, descending)
    ELSE k

\* list.sort, binarysort: where the pivot goes in the sorted s[1..start], as a
\* number of items before it, searched in l..r
RECURSIVE BinarySlot(_, _, _, _, _)
BinarySlot(agg, s, pivot, l, r) ==
    IF l >= r THEN l
    ELSE LET p == l + ((r - l) \div 2)
         IN  IF KeyLess(agg, pivot, s[p + 1])
             THEN BinarySlot(agg, s, pivot, l, p)
             ELSE BinarySlot(agg, s, pivot, p + 1, r)

\* list.sort, binarysort: s[1..start] is sorted, the rest is inserted item by item
RECURSIVE BinarySort(_, _, _)
BinarySort(agg, s, start) ==
    IF start >= Len(s) THEN s
    ELSE LET pivot == s[start + 1]
             l == BinarySlot(agg, s, pivot, 0, start)
         IN  BinarySort(agg,
                 SubSeq(s, 1, l) \o <<pivot>> \o SubSeq(s, l + 1, start)
                     \o SubSeq(s, start + 2, Len(s)),
                 start + 1)

\* list.sort of a list shorter than 64: the first run, turned round when it
\* descends, then binary insertion of the rest
SortAscending(agg, s) ==
    IF Len(s) < 2 THEN s
    ELSE LET descending == KeyLess(agg, s[2], s[1])
             k == RunEnd(agg, s, 2, descending)
         IN  BinarySort(agg,
                 IF descending
                 THEN Reverse(SubSeq(s, 1, k)) \o SubSeq(s, k + 1, Len(s))
                 ELSE s,
                 k)

\* sorted(aggregated_scores.items(), key=score, reverse=True): the list is
\* reversed, sorted and reversed again; the dict's insertion order is the
\* order of names
SortedFeatures(agg, names) ==
    Reverse(SortAscending(agg,
        Reverse(SelectSeq(names, LAMBDA f : f \in DOMAIN agg))))

FirstCollisionLatestOnly(cfg, Xn, names, feature, sel, j) ==
    IF sel # <<>>
       /\ AbsCorrExceeds(Xn[IndexOf(names, feature)],
                         Xn[IndexOf(names, sel[Len(sel)])], cfg.max_correlation)
    THEN Some(sel[Len(sel)])
    ELSE None

\* the inner loop over self.selected_features: the first selected feature whose
\* correlation with the candidate exceeds the limit, or None
RECURSIVE FirstCollision(_, _, _, _, _, _)
FirstCollision(cfg, Xn, names, feature, sel, j) ==
    IF j > Len(sel) THEN None
    ELSE IF AbsCorrExceeds(Xn[IndexOf(names, feature)],
                           Xn[IndexOf(names, sel[j])], cfg.max_correlation)
         THEN Some(sel[j])
         ELSE FirstCollision(cfg, Xn, names, feature, sel, j + 1)

\* "if self.config.top_k is not None and len(self.selected_features) >= top_k"
EnoughSelectedLate(cfg, acc) ==
    cfg.top_k # None /\ Len(acc.selected) > cfg.top_k[1]

EnoughSelectedOrSeen(cfg, acc) ==
    cfg.top_k # None /\ Len(acc.selected) + Len(acc.redundant) >= cfg.top_k[1]

EnoughSelected(cfg, acc) ==
    cfg.top_k # None /\ Len(acc.selected) >= cfg.top_k[1]

\* "if self.config.threshold is not None and score < self.config.threshold"
BelowThreshold(cfg, score) ==
    cfg.threshold # None /\ score.num < cfg.threshold[1] * score.den

RECURSIVE GreedyStoppingAtRedundant(_, _, _, _, _, _, _)
GreedyStoppingAtRedundant(cfg, Xn, names, agg, sorted, i, acc) ==
    IF i > Len(sorted) THEN acc
    ELSE
      LET feature == sorted[i]
          hit == FirstCollision(cfg, Xn, names, feature, acc.selected, 1)
      IN  IF EnoughSelected(cfg, acc) THEN acc
          ELSE IF BelowThreshold(cfg, agg[feature]) THEN acc
          ELSE IF acc.selected # <<>> /\ cfg.max_correlation < 100 /\ hit # None
               THEN [acc EXCEPT
                         !.redundant = Append(@, feature),
                         !.details = @ @@ (feature :>
                            [correlation |->
                                AbsCorr(Xn[IndexOf(names, feature)],
                                        Xn[IndexOf(names, hit[1])]),
                             correlated_with |-> hit])]
          ELSE GreedyStoppingAtRedundant(cfg, Xn, names, agg, sorted, i + 1,
                      [acc EXCEPT !.selected = Append(@, feature)])

\* the loop "for feature, score in sorted_features", from position i on
RECURSIVE GreedyFrom(_, _, _, _, _, _, _)
GreedyFrom(cfg, Xn, names, agg, sorted, i, acc) ==
    IF i > Len(sorted) THEN acc
    ELSE
      LET feature == sorted[i]
          hit == FirstCollision(cfg, Xn, names, feature, acc.selected, 1)
      IN  IF EnoughSelected(cfg, acc) THEN acc
          ELSE IF BelowThreshold(cfg, agg[feature]) THEN acc
          ELSE IF acc.selected # <<>> /\ cfg.max_correlation < 100 /\ hit # None
               THEN GreedyFrom(cfg, Xn, names, agg, sorted, i + 1,
                      [acc EXCEPT
                         !.redundant = Append(@, feature),
                         !.details = @ @@ (feature :>
                            [correlation |->
                                AbsCorr(Xn[IndexOf(names, feature)],
                                        Xn[IndexOf(names, hit[1])]),
                             correlated_with |-> hit])])
          ELSE GreedyFrom(cfg, Xn, names, agg, sorted, i + 1,
                      [acc EXCEPT !.selected = Append(@, feature)])

SummaryPointingAtFirstSelected(names, agg, out) ==
    [f \in Range(names) |->
        [aggregated_score |->
            IF f \in DOMAIN agg THEN agg[f] ELSE [num |-> 0, den |-> 1],
         selected |-> f \in Range(out.selected),
         redundant |-> f \in Range(out.redundant),
         correlated_with |->
            IF f \in DOMAIN out.details THEN Some(out.selected[1]) ELSE None,
         correlation |->
            IF f \in DOMAIN out.details
            THEN Some(out.details[f].correlation) ELSE None]]

\* the rows of feature_summary, by feature (the order of the rows is left out)
Summary(names, agg, out) ==
    [f \in Range(names) |->
        [aggregated_score |->
            IF f \in DOMAIN agg THEN agg[f] ELSE [num |-> 0, den |-> 1],
         selected |-> f \in Range(out.selected),
         redundant |-> f \in Range(out.redundant),
         correlated_with |->
            IF f \in DOMAIN out.details
            THEN out.details[f].correlated_with ELSE None,
         correlation |->
            IF f \in DOMAIN out.details
            THEN Some(out.details[f].correlation) ELSE None]]

\* _select_features: the new selected_features, removed_redundant, feature_summary
SelectFeatures(cfg, Xn, names, scores) ==
    CHOOSE res \in
        {[selected |-> out.selected, redundant |-> out.redundant,
          summary |-> Summary(names, out.agg, out)] :
         out \in {[agg |-> agg] @@
                  GreedyFrom(cfg, Xn, names, agg, SortedFeatures(agg, names), 1,
                    [selected |-> <<>>, redundant |-> <<>>, details |-> <<>>]) :
                  agg \in {AggregatedScores(scores, names)}}} : TRUE

----------------------------------------------------------------------------
(* FeatureSelector: actions *)

\* sorted(zip(feature_names, scores), key=score, reverse=True)
Ranking(names, vec) ==
    SortedFeatures([f \in Range(names) |->
                        IF vec[f] = NaNScore THEN NaN
                        ELSE [num |-> vec[f], den |-> 1]], names)

\* the loop over config.methods: a method that raises leaves its entries alone
RECURSIVE RunMethods(_, _, _, _, _)
RunMethods(methods, outcome, names, scores, rankings) ==
    IF methods = <<>> THEN [scores |-> scores, rankings |-> rankings]
    ELSE LET m == Head(methods)
         IN  IF outcome[m] = Raise
             THEN RunMethods(Tail(methods), outcome, names, scores, rankings)
             ELSE RunMethods(Tail(methods), outcome, names,
                    [x \in DOMAIN scores \cup {m} |->
                        IF x = m THEN outcome[m] ELSE scores[x]],
                    [x \in DOMAIN rankings \cup {m} |->
                        IF x = m THEN Ranking(names, outcome[m]) ELSE rankings[x]])

\* the FeatureSelector of a run that does not use it: never fitted
SelectorIdle ==
    /\ selector_config = [methods |-> SelectorMethods, top_k |-> None,
                          threshold |-> None,
                          max_correlation |-> DefaultMaxCorrelation]
    /\ fit_X = <<>>
    /\ feature_names = <<>>
    /\ X_numeric = None
    /\ feature_scores = <<>>
    /\ feature_rankings = <<>>
    /\ selected_features = <<>>
    /\ removed_redundant = <<>>
    /\ feature_summary = None
    /\ selector_result = [call |-> "none", status |-> "none"]

\* the FeatureEngineer of a run that does not use it: never built
EngineerIdle ==
    /\ engineer_config = None
    /\ transform_stats = <<>>
    /\ feature_mapping = <<>>
    /\ binary_features = <<>>
    /\ target_col = None
    /\ engineer_fits = 0
    /\ engineer_fitted = None
    /\ engineer_result = [call |-> "none"]

\* the FeatureFilter of a run that does not use it: never built
FilterIdle ==
    /\ filter_kwargs = None
    /\ filter_config = None
    /\ filter_df = None
    /\ filter_report = <<>>
    /\ removed_features = <<>>
    /\ kept_features = <<>>
    /\ filter_result = [call |-> "none", status |-> "none"]

SelectorInit ==
    /\ selector_config \in SelectorConfigs
    /\ fit_X \in SelectorTables
    /\ feature_names = <<>>
    /\ X_numeric = None
    /\ feature_scores = <<>>
    /\ feature_rankings = <<>>
    /\ selected_features = <<>>
    /\ removed_redundant = <<>>
    /\ feature_summary = None
    /\ selector_result = [call |-> "none", status |-> "none"]

\* FeatureSelector.fit(X, y) with feature_names = X.columns
SelectorFit ==
    /\ \E names \in {[i \in Features |-> i]} :
       \E Xn \in {PrepareFeatures(fit_X)} :
       \E outcome \in FitOutcomes(selector_config.methods, Xn) :
       \E ran \in {RunMethods(selector_config.methods, outcome, names,
                               feature_scores, feature_rankings)} :
       \E out \in {SelectFeatures(selector_config, Xn, names, ran.scores)} :
           /\ X_numeric' = Xn
           /\ feature_names' = names
           /\ feature_scores' = ran.scores
           /\ feature_rankings' = ran.rankings
           /\ selected_features' = out.selected
           /\ removed_redundant' = out.redundant
           /\ feature_summary' = out.summary
           /\ selector_result' =
                 [call |-> "fit", status |-> "ok",
                  succeeded |-> {m \in Range(selector_config.methods) :
                                    outcome[m] # Raise}]
           /\ UNCHANGED <<selector_config, fit_X>>
    /\ UNCHANGED <<filterVars, engineerVars>>

\* FeatureSelector.transform(X) on a table with the columns in cols
SelectorTransform ==
    /\ \E cols \in {Features} :
         /\ selector_result' =
               IF selected_features = <<>>
               THEN [call |-> "transform", status |-> "ValueError"]
               ELSE [call |-> "transform", status |-> "ok",
                     columns |-> SelectSeq(selected_features, LAMBDA f : f \in cols)]
         /\ UNCHANGED <<selector_config, fit_X, feature_names, X_numeric,
                        feature_scores, feature_rankings, selected_features,
                        removed_redundant, feature_summary>>
    /\ UNCHANGED <<filterVars, engineerVars>>

SelectorNext == SelectorFit \/ SelectorTransform

\* a run that uses a FeatureSelector only
SelectorRunInit == SelectorInit /\ FilterIdle /\ EngineerIdle

SpecSelector == SelectorRunInit /\ [][SelectorNext]_vars

----------------------------------------------------------------------------
(* FeatureSelector: properties *)


\* fit has completed at least once on this instance
SelectorFitted == feature_summary # None

\* the candidates of the last fit, in rank order
Candidates ==
    SortedFeatures(AggregatedScores(feature_scores, feature_names), feature_names)

\* abs(correlation(a, b)) <= max_correlation as a comparison of numbers: it is
\* False when the coefficient is NaN
CorrWithinLimit(a, b) ==
    LET c == AbsCorr(X_numeric[IndexOf(feature_names, a)],
                     X_numeric[IndexOf(feature_names, b)])
        limit == selector_config.max_correlation
    IN  c # NaN /\ c.num * 10000 <= limit * limit * c.den

\* the coefficient is a number and abs(correlation(a, b)) > max_correlation
CorrAboveLimit(a, b) ==
    LET c == AbsCorr(X_numeric[IndexOf(feature_names, a)],
                     X_numeric[IndexOf(feature_names, b)])
        limit == selector_config.max_correlation
    IN  c # NaN /\ c.num * 10000 > limit * limit * c.den

\* C1: after fit with top_k configured, the number of selected features never
\* exceeds top_k, whatever the scores, the correlations and the threshold
C1_SelectedWithinTopK ==
    (SelectorFitted /\ selector_config.top_k # None)
        => Len(selected_features) <= selector_config.top_k[1]

\* C1 witness: top_k = 2 and a threshold are configured, the cap is reached and
\* a third candidate that passes the threshold is left out
C1_Witness ==
    /\ SelectorFitted
    /\ selector_config.top_k = Some(2)
    /\ selector_config.threshold # None
    /\ Len(selected_features) = 2
    /\ Len(Candidates) > 2
    /\ \A f \in Range(Candidates) :
          ~BelowThreshold(selector_config,
                          AggregatedScores(feature_scores, feature_names)[f])

\* C2 as claimed: after fit every pair of distinct selected features has
\* abs(correlation) <= max_correlation
C2_AllPairsWithinLimit ==
    SelectorFitted =>
        \A a, b \in Range(selected_features) : a # b => CorrWithinLimit(a, b)

\* C2 as amended: after fit no pair of distinct selected features has a
\* correlation that is a number with abs(correlation) > max_correlation; a pair
\* whose coefficient is NaN (a constant column) may be selected together
C2_NoPairAboveLimit ==
    SelectorFitted =>
        \A a, b \in Range(selected_features) : a # b => ~CorrAboveLimit(a, b)

\* C2 witness: two features are selected, a third was rejected as redundant
C2_Witness ==
    /\ SelectorFitted
    /\ Len(selected_features) >= 2
    /\ removed_redundant # <<>>
    /\ \E a \in Range(selected_features), b \in Range(removed_redundant) :
          CorrAboveLimit(a, b)

\* the candidates that are not redundant to the ones kept before them, in rank
\* order, with no cap on their number
RECURSIVE NonRedundantFrom(_, _, _)
NonRedundantFrom(cands, i, kept) ==
    IF i > Len(cands) THEN kept
    ELSE IF selector_config.max_correlation < 100
            /\ \E k \in Range(kept) : CorrAboveLimit(cands[i], k)
         THEN NonRedundantFrom(cands, i + 1, kept)
         ELSE NonRedundantFrom(cands, i + 1, Append(kept, cands[i]))

\* C3: with top_k = K and no threshold the selected list is the first K
\* candidates in rank order that are not redundant to those accepted before
\* them (all of them when there are fewer than K); the rejected ones are
\* recorded as redundant and are not selected
C3_RedundantSkippedNotCounted ==
    (SelectorFitted /\ selector_config.top_k # None
                    /\ selector_config.threshold = None)
        => /\ selected_features =
                Take(NonRedundantFrom(Candidates, 1, <<>>), selector_config.top_k[1])
           /\ Range(selected_features) \cap Range(removed_redundant) = {}

\* C3 witness: top_k = 2, no threshold; the candidate ranked second was
\* rejected as redundant and the one ranked third was still selected
C3_Witness ==
    /\ SelectorFitted
    /\ selector_config.top_k = Some(2)
    /\ selector_config.threshold = None
    /\ Len(Candidates) >= 3
    /\ selected_features = <<Candidates[1], Candidates[3]>>
    /\ Candidates[2] \in Range(removed_redundant)

----------------------------------------------------------------------------
(* FeatureFilter: inputs *)

\* a column whose first cells are missing and whose other cells are all equal
\* or all different
FilterColumnData(missing, shape) ==
    [r \in 1..NFilterRows |->
        IF r <= missing THEN NA ELSE IF shape = "constant" THEN 5 ELSE r]

FilterColumns ==
    {FilterColumnData(k, sh) : k \in 0..NFilterRows, sh \in {"constant", "distinct"}}

\* tables with a numeric column n, an object column c and a numeric 0/1 target t
FilterTables ==
    {[columns |-> <<"n", "c", "t">>,
      numeric |-> {"n", "t"},
      data |-> [n |-> n, c |-> c, t |-> [r \in 1..NFilterRows |-> r % 2]]] :
        n \in FilterColumns, c \in FilterColumns}

\* the column lists of the tables handed to FeatureFilter.transform: the training
\* columns, and a table without n, with a new column x, in another order
TransformColumns == {<<"n", "c", "t">>, <<"t", "x", "c">>}

DefaultMaxMissingRate == 90
DefaultMaxCardinalityNumeric == 1000
DefaultMaxCardinalityCategorical == 100
DefaultMinVariance == 0
DefaultFilterMaxCorrelation == 99

\* the fields of the dataclass FeatureFilterConfig with their defaults
FeatureFilterConfig ==
    [max_missing_rate |-> DefaultMaxMissingRate,
     max_cardinality_numeric |-> DefaultMaxCardinalityNumeric,
     max_cardinality_categorical |-> DefaultMaxCardinalityCategorical,
     min_variance |-> DefaultMinVariance,
     max_correlation |-> DefaultFilterMaxCorrelation]

\* the keyword arguments callers build a FeatureFilterConfig with
FilterConfigRequests ==
    {[max_missing_rate |-> 90],
     [max_missing_rate |-> 25],
     [max_missing_rate |-> 90, max_cardinality_numeric |-> 3,
      max_cardinality_categorical |-> 2],
     [max_missing_rate |-> 25, max_cardinality_numeric |-> 3,
      max_cardinality_categorical |-> 2],
     [max_cardinality_ratio |-> 10],
     [max_missing_rate |-> 90, max_cardinality_ratio |-> 50]}

----------------------------------------------------------------------------
(* FeatureFilter.fit *)

\* df[col].isna().sum()
MissingCount(col) == Cardinality({r \in DOMAIN col : col[r] = NA})

\* df[col].nunique(): distinct non-missing values
NUnique(col) == Cardinality({col[r] : r \in DOMAIN col} \ {NA})

\* df[col].var(): the sample variance of the non-missing cells as the exact
\* fraction [num, den]; NaN with fewer than two of them
Variance(col) ==
    LET x == DropNa(col)
        n == Len(x)
    IN  IF n < 2 THEN NaN
        ELSE [num |-> n * ColDot(x, x) - ColSum(x) * ColSum(x), den |-> n * (n - 1)]

\* a > b for a fraction a and a percentage b
RateExceedsOrEquals(rate, percent) == rate.num * 100 >= percent * rate.den

RateExceeds(rate, percent) == rate.num * 100 > percent * rate.den

\* v <= bound for a variance v; a NaN compares False
VarianceAtMost(v, bound) == v.den # 0 /\ v.num <= bound * v.den

\* the first version of col_report, before the checks
ColumnReport(df, col, numerical_cols) ==
    [type |-> IF col \in Range(numerical_cols) THEN "numerical" ELSE "categorical",
     missing_rate |-> [num |-> MissingCount(df.data[col]), den |-> Len(df.data[col])],
     cardinality |-> NUnique(df.data[col]),
     variance |-> IF col \in Range(numerical_cols) /\ col \in df.numeric
                  THEN Some(Variance(df.data[col])) ELSE None,
     kept |-> TRUE,
     removal_reason |-> None]

RemovalReasonVarianceFirst(cfg, col, numerical_cols, categorical_cols, report) ==
    IF col \in Range(numerical_cols) /\ report.variance # None
       /\ VarianceAtMost(report.variance[1], cfg.min_variance)
    THEN Some("zero_variance")
    ELSE IF RateExceeds(report.missing_rate, cfg.max_missing_rate)
    THEN Some("high_missingness")
    ELSE IF col \in Range(numerical_cols)
            /\ report.cardinality >= cfg.max_cardinality_numeric
    THEN Some("high_cardinality")
    ELSE IF col \in Range(categorical_cols)
            /\ report.cardinality >= cfg.max_cardinality_categorical
    THEN Some("high_cardinality")
    ELSE None

RemovalReasonInclusive(cfg, col, numerical_cols, categorical_cols, report) ==
    IF RateExceedsOrEquals(report.missing_rate, cfg.max_missing_rate)
    THEN Some("high_missingness")
    ELSE IF col \in Range(numerical_cols)
            /\ report.cardinality >= cfg.max_cardinality_numeric
    THEN Some("high_cardinality")
    ELSE IF col \in Range(categorical_cols)
            /\ report.cardinality >= cfg.max_cardinality_categorical
    THEN Some("high_cardinality")
    ELSE IF col \in Range(numerical_cols) /\ report.variance # None
            /\ VarianceAtMost(report.variance[1], cfg.min_variance)
    THEN Some("zero_variance")
    ELSE None

\* the if / elif chain of checks 1 to 3: the reason of the first check that
\* matches, or None
RemovalReason(cfg, col, numerical_cols, categorical_cols, report) ==
    IF RateExceeds(report.missing_rate, cfg.max_missing_rate)
    THEN Some("high_missingness")
    ELSE IF col \in Range(numerical_cols)
            /\ report.cardinality >= cfg.max_cardinality_numeric
    THEN Some("high_cardinality")
    ELSE IF col \in Range(categorical_cols)
            /\ report.cardinality >= cfg.max_cardinality_categorical
    THEN Some("high_cardinality")
    ELSE IF col \in Range(numerical_cols) /\ report.variance # None
            /\ VarianceAtMost(report.variance[1], cfg.min_variance)
    THEN Some("zero_variance")
    ELSE None

\* the loop "for col in all_features", from position i on
RECURSIVE CheckFeatures(_, _, _, _, _, _, _)
CheckFeatures(cfg, df, numerical_cols, categorical_cols, all_features, i, acc) ==
    IF i > Len(all_features) THEN acc
    ELSE
      LET col == all_features[i]
          first == ColumnReport(df, col, numerical_cols)
          reason == RemovalReason(cfg, col, numerical_cols, categorical_cols, first)
          final == IF reason = None THEN first
                   ELSE [first EXCEPT !.kept = FALSE, !.removal_reason = reason]
          removed == IF reason = None THEN acc.removed
                     ELSE [acc.removed EXCEPT ![reason[1]] = Append(@, col),
                                              !["all"] = Append(@, col)]
      IN  CheckFeatures(cfg, df, numerical_cols, categorical_cols, all_features, i + 1,
            [report |-> [c \in DOMAIN acc.report \cup {col} |->
                            IF c = col THEN final ELSE acc.report[c]],
             removed |-> removed])

KeptFeaturesUnfiltered(all_features, report) == all_features

\* [col for col in all_features if self.filter_report[col]['kept']]
KeptFeatures(all_features, report) ==
    SelectSeq(all_features, LAMBDA col : report[col].kept)

----------------------------------------------------------------------------
(* FeatureFilter: actions *)

FilterInit ==
    /\ filter_kwargs = None
    /\ filter_config = None
    /\ filter_df = None
    /\ filter_report = <<>>
    /\ removed_features = <<>>
    /\ kept_features = <<>>
    /\ filter_result = [call |-> "none", status |-> "none"]

FilterBuilt == filter_config # None

\* FeatureFilter(FeatureFilterConfig(**kwargs)): the dataclass constructor takes
\* its own fields only, any other keyword is a TypeError and no filter is built
FilterConstruct ==
    /\ \E kwargs \in FilterConfigRequests :
         /\ ~FilterBuilt
         /\ filter_kwargs' = Some(kwargs)
         /\ IF DOMAIN kwargs \subseteq DOMAIN FeatureFilterConfig
            THEN /\ filter_config' =
                       Some([k \in DOMAIN FeatureFilterConfig |->
                               IF k \in DOMAIN kwargs THEN kwargs[k]
                               ELSE FeatureFilterConfig[k]])
                 /\ filter_result' = [call |-> "construct", status |-> "ok",
                                      kwargs |-> kwargs]
            ELSE /\ filter_config' = filter_config
                 /\ filter_result' = [call |-> "construct", status |-> "TypeError",
                                      kwargs |-> kwargs]
         /\ UNCHANGED <<filter_df, filter_report, removed_features, kept_features>>
    /\ UNCHANGED <<selectorVars, engineerVars>>

\* FeatureFilter.fit(df, target_col=target): the column lists are auto-detected
FilterFit ==
    /\ /\ FilterBuilt
       /\ \E df \in FilterTables, target \in {None, Some("t")} :
          \E numerical_cols \in
              {SelectSeq(df.columns, LAMBDA c : c \in df.numeric /\ Some(c) # target)} :
          \E categorical_cols \in
              {SelectSeq(df.columns, LAMBDA c : c \notin df.numeric /\ Some(c) # target)} :
          \E all_features \in {numerical_cols \o categorical_cols} :
          \E out \in {CheckFeatures(filter_config[1], df, numerical_cols, categorical_cols,
                          all_features, 1,
                          [report |-> <<>>,
                           removed |-> [high_missingness |-> <<>>, high_cardinality |-> <<>>,
                                        zero_variance |-> <<>>, all |-> <<>>]])} :
            /\ filter_df' = Some([df |-> df, target_col |-> target])
            /\ filter_report' = out.report
            /\ removed_features' = out.removed
            /\ kept_features' = KeptFeatures(all_features, out.report)
            /\ filter_result' = [call |-> "fit", status |-> "ok"]
            /\ UNCHANGED <<filter_kwargs, filter_config>>
    /\ UNCHANGED <<selectorVars, engineerVars>>

\* FeatureFilter.transform(df) on a table with the column list columns
FilterTransform ==
    /\ \E columns \in TransformColumns :
         /\ FilterBuilt
         /\ filter_result' =
               IF kept_features = <<>>
               THEN [call |-> "transform", status |-> "ValueError", df_columns |-> columns]
               ELSE [call |-> "transform", status |-> "ok", df_columns |-> columns,
                     columns |->
                       SelectSeq(kept_features, LAMBDA c : c \in Range(columns))
                       \o SelectSeq(columns, LAMBDA c : c \notin DOMAIN filter_report)]
         /\ UNCHANGED <<filter_kwargs, filter_config, filter_df, filter_report,
                        removed_features, kept_features>>
    /\ UNCHANGED <<selectorVars, engineerVars>>

FilterNext == FilterConstruct \/ FilterFit \/ FilterTransform

\* a run that uses a FeatureFilter only
FilterRunInit == FilterInit /\ SelectorIdle /\ EngineerIdle

SpecFilter == FilterRunInit /\ [][FilterNext]_vars

----------------------------------------------------------------------------
(* FeatureFilter: properties *)

\* fit has completed at least once on this filter
FilterFitted == filter_df # None

\* the table and the candidate columns of the last fit: every column of the
\* table but the target
FitTable == filter_df[1].df
FitCandidates == {c \in Range(FitTable.columns) : Some(c) # filter_df[1].target_col}

ReasonLists == {"high_missingness", "high_cardinality", "zero_variance"}

\* C4: after fit, kept is true exactly when removal_reason is none; a removed
\* column is in removed_features['all'] and in exactly one of the three reason
\* lists; kept_features and removed_features['all'] are disjoint and together
\* are the candidate columns
C4_KeptOrOneReason ==
    FilterFitted =>
        /\ DOMAIN filter_report = FitCandidates
        /\ \A c \in FitCandidates :
              /\ filter_report[c].kept <=> filter_report[c].removal_reason = None
              /\ filter_report[c].kept <=> c \in Range(kept_features)
              /\ ~filter_report[c].kept <=> c \in Range(removed_features["all"])
              /\ ~filter_report[c].kept =>
                    Cardinality({l \in ReasonLists :
                                    c \in Range(removed_features[l])}) = 1
              /\ filter_report[c].kept =>
                    \A l \in ReasonLists : c \notin Range(removed_features[l])
        /\ Range(kept_features) \cap Range(removed_features["all"]) = {}
        /\ Range(kept_features) \cup Range(removed_features["all"]) = FitCandidates

\* C4 witness: one fit kept a column and removed two others for different reasons
C4_Witness ==
    /\ FilterFitted
    /\ kept_features # <<>>
    /\ Cardinality({l \in ReasonLists : removed_features[l] # <<>>}) >= 2

\* the three rules, read off the fitted table
OverMissing(c) ==
    MissingCount(FitTable.data[c]) * 100
        > filter_config[1].max_missing_rate * Len(FitTable.data[c])

OverCardinality(c) ==
    NUnique(FitTable.data[c]) >=
        (IF c \in FitTable.numeric THEN filter_config[1].max_cardinality_numeric
         ELSE filter_config[1].max_cardinality_categorical)

UnderVariance(c) ==
    /\ c \in FitTable.numeric
    /\ VarianceAtMost(Variance(FitTable.data[c]), filter_config[1].min_variance)

\* C5: the rules are applied in the order missingness, cardinality, variance
\* and the first that matches gives the one recorded reason
C5_FirstRuleWins ==
    FilterFitted =>
        \A c \in FitCandidates :
            filter_report[c].removal_reason =
                IF OverMissing(c) THEN Some("high_missingness")
                ELSE IF OverCardinality(c) THEN Some("high_cardinality")
                ELSE IF UnderVariance(c) THEN Some("zero_variance")
                ELSE None

\* C5 witness: a column over the missing-rate limit that is also constant is
\* recorded as high_missingness, and one that is over the cardinality cap and
\* under no other rule as high_cardinality
C5_Witness ==
    /\ FilterFitted
    /\ \E c \in FitCandidates :
          /\ OverMissing(c) /\ UnderVariance(c)
          /\ filter_report[c].removal_reason = Some("high_missingness")
          /\ c \notin Range(removed_features["zero_variance"])
    /\ \E c \in FitCandidates :
          /\ ~OverMissing(c) /\ OverCardinality(c)
          /\ filter_report[c].removal_reason = Some("high_cardinality")

\* C6: a column is removed for high missingness exactly when its missing rate
\* is strictly greater than max_missing_rate
C6_MissingnessStrict ==
    FilterFitted =>
        \A c \in FitCandidates :
            c \in Range(removed_features["high_missingness"])
                <=> MissingCount(FitTable.data[c]) * 100
                        > filter_config[1].max_missing_rate * Len(FitTable.data[c])

\* C6 witness: one column's missing rate equals max_missing_rate and it is not
\* removed for missingness, another column's rate is above it and it is
C6_Witness ==
    /\ FilterFitted
    /\ \E c \in FitCandidates :
          /\ MissingCount(FitTable.data[c]) * 100
                = filter_config[1].max_missing_rate * Len(FitTable.data[c])
          /\ c \notin Range(removed_features["high_missingness"])
    /\ \E c \in FitCandidates :
          c \in Range(removed_features["high_missingness"])

\* the caller asked for a FeatureFilterConfig with max_cardinality_ratio
RatioRequested ==
    filter_kwargs # None /\ "max_cardinality_ratio" \in DOMAIN filter_kwargs[1]

\* C7 as claimed: a filter configured with max_cardinality_ratio = r exists
\* and, once fitted, has removed as high_cardinality every column that passed
\* the missingness check and has more than r percent distinct values per row
C7_RatioConfigRemoves ==
    RatioRequested =>
        /\ FilterBuilt
        /\ filter_result.status # "TypeError"
        /\ FilterFitted =>
              \A c \in FitCandidates :
                (/\ ~OverMissing(c)
                 /\ NUnique(FitTable.data[c]) * 100
                      > filter_kwargs[1].max_cardinality_ratio * Len(FitTable.data[c]))
                    => filter_report[c].removal_reason = Some("high_cardinality")

\* the column list C8 states for a transform of a table with these columns
ProjectedColumns(columns) ==
    SelectSeq(kept_features, LAMBDA c : c \in Range(columns))
        \o SelectSeq(columns, LAMBDA c : c \notin FitCandidates)

\* C8 as claimed: after fit, transform returns the kept columns present in
\* the table followed by the table's columns that were no candidates
C8_TransformProjects ==
    (FilterFitted /\ filter_result.call = "transform")
        => /\ filter_result.status = "ok"
           /\ filter_result.columns = ProjectedColumns(filter_result.df_columns)

----------------------------------------------------------------------------
(* FeatureEngineer: inputs *)

NEngRows == 5          \* rows of a table given to FeatureEngineer
MaxEngineerFits == 2   \* fit_transform calls made on one FeatureEngineer

EngRows == 1..NEngRows

\* A numeric column: "binary" holds 0 and 1 and a missing cell, "wide" holds
\* pairwise different values, "gappy" is wide with a missing cell, "shifted"
\* is a held-out column that leaves the range of "wide" on both sides.
NumericColumnData(kind) ==
    CASE kind = "binary" -> [r \in EngRows |-> IF r = 1 THEN NA ELSE r % 2]
      [] kind = "wide" -> [r \in EngRows |-> r * r]
      [] kind = "gappy" -> [r \in EngRows |-> IF r = 2 THEN NA ELSE 2 * r]
      [] kind = "shifted" -> [r \in EngRows |-> IF r = 1 THEN 0 ELSE 10 * r]

\* a missing cell of a categorical column (cells that hold a value are
\* category names)
MissingCategory == "NaN"

\* A categorical column: "binary" alternates two categories, "rare" has one
\* frequent and two single-row categories, "rare_gap" is "rare" with a
\* missing cell, "three_rare" has one frequent and three single-row
\* categories, "spread" has a category per row, "unseen" is a held-out
\* column with a category that "rare" does not have.
CategoricalColumnData(kind) ==
    CASE kind = "binary" -> [r \in EngRows |-> IF r % 2 = 1 THEN "a" ELSE "b"]
      [] kind = "rare" ->
            [r \in EngRows |-> IF r = 1 THEN "b" ELSE IF r = 2 THEN "c" ELSE "a"]
      [] kind = "rare_gap" ->
            [r \in EngRows |-> IF r = 1 THEN "b" ELSE IF r = 2 THEN "c"
                               ELSE IF r = 3 THEN MissingCategory ELSE "a"]
      [] kind = "three_rare" ->
            [r \in EngRows |-> IF r = 1 THEN "b" ELSE IF r = 2 THEN "c"
                               ELSE IF r = 3 THEN "d" ELSE "a"]
      [] kind = "spread" -> [r \in EngRows |-> "c" \o ToString(r)]
      [] kind = "unseen" ->
            [r \in EngRows |-> IF r = 1 THEN "new" ELSE IF r = 2 THEN "c" ELSE "a"]

\* a table with the numeric columns x, y and t and the categorical column z
EngineerTable(x, z, t) ==
    [columns |-> <<"x", "y", "z", "t">>,
     numeric |-> {"x", "y", "t"},
     data |-> [x |-> NumericColumnData(x), y |-> NumericColumnData("gappy"),
               z |-> CategoricalColumnData(z), t |-> NumericColumnData(t)]]

\* the tables given to fit_transform_numerical and fit_transform_categorical
EngineerTables ==
    {EngineerTable("binary", "binary", "binary"),
     EngineerTable("wide", "rare", "wide"),
     EngineerTable("binary", "spread", "wide"),
     EngineerTable("wide", "binary", "binary"),
     EngineerTable("wide", "rare_gap", "wide"),
     EngineerTable("binary", "three_rare", "binary")}

\* the tables given to transform_numerical and transform_categorical
HeldOutTables ==
    {EngineerTable("wide", "rare", "wide"),
     EngineerTable("shifted", "unseen", "wide")}

\* FeatureTransformConfig: cap_percentiles is the default (1, 99);
\* n_bins_options starts with the row count, so that a column with a missing
\* cell is too short for it, goes on with a count pd.cut does not accept and
\* ends with a count every column is long enough for; min_category_freq is a
\* percentage: the default 0.01, 0.20 (the frequency of a category with one
\* row in a full column) or 0.30.
EngineerConfigs ==
    {[cap_percentiles |-> <<1, 99>>,
      n_bins_options |-> <<NEngRows, 0, 2>>,
      min_category_freq |-> f] : f \in {1, 20, 30}}

----------------------------------------------------------------------------
(* FeatureEngineer: fit_transform_numerical and fit_transform_categorical *)

\* dict[key] = value
Put(dict, key, value) ==
    [k \in DOMAIN dict \cup {key} |-> IF k = key THEN value ELSE dict[k]]

\* df_transformed[name] = values: a new column goes to the end of the table
AddColumn(table, name, values) ==
    [columns |-> IF name \in Range(table.columns) THEN table.columns
                 ELSE Append(table.columns, name),
     numeric |-> table.numeric,
     data |-> Put(table.data, name, values)]

\* df[col].dropna()
Valid(df, col) ==
    IF col \in df.numeric THEN DropNa(df.data[col])
    ELSE SelectSeq(df.data[col], LAMBDA v : v # MissingCategory)

\* Series.unique(): the distinct values in order of first appearance
RECURSIVE UniqueFrom(_, _, _)
UniqueFrom(s, i, acc) ==
    IF i > Len(s) THEN acc
    ELSE UniqueFrom(s, i + 1,
                    IF s[i] \in Range(acc) THEN acc ELSE Append(acc, s[i]))

Unique(s) == UniqueFrom(s, 1, <<>>)

\* detect_binary_features(df, columns): the columns with exactly two distinct
\* non-missing values, each recorded in transform_stats
RECURSIVE DetectBinaryFeatures(_, _, _, _)
DetectBinaryFeatures(df, columns, i, acc) ==
    IF i > Len(columns) THEN acc
    ELSE LET col == columns[i]
             unique_vals == Unique(Valid(df, col))
         IN  DetectBinaryFeatures(df, columns, i + 1,
                IF Len(unique_vals) = 2
                THEN [binary |-> Append(acc.binary, col),
                      stats |-> Put(acc.stats, col,
                                    [type |-> "binary", unique_values |-> unique_vals])]
                ELSE acc)

ColsToTransformWithBinary(cols, target, binary_cols) ==
    SelectSeq(cols, LAMBDA col : Some(col) # target)

\* cols_to_transform: the given columns without the target and the binary ones
ColsToTransform(cols, target, binary_cols) ==
    SelectSeq(cols, LAMBDA col : Some(col) # target /\ col \notin Range(binary_cols))

\* np.percentile(values, q), linear interpolation, in hundredths; sorted is
\* the non-empty list of values in ascending order
Percentile(sorted, q) ==
    LET pos == (Len(sorted) - 1) * q
        lo == pos \div 100
        frac == pos % 100
    IN  IF frac = 0 THEN 100 * sorted[lo + 1]
        ELSE 100 * sorted[lo + 1] + frac * (sorted[lo + 2] - sorted[lo + 1])

ClipLowerOnly(col, lower, upper) ==
    [r \in DOMAIN col |->
        IF col[r] = NA THEN NA
        ELSE IF 100 * col[r] < lower THEN lower ELSE 100 * col[r]]

\* df[col].clip(lower, upper) with the bounds and the result in hundredths
Clip(col, lower, upper) ==
    [r \in DOMAIN col |->
        IF col[r] = NA THEN NA
        ELSE IF 100 * col[r] < lower THEN lower
        ELSE IF 100 * col[r] > upper THEN upper
        ELSE 100 * col[r]]

\* The edges pd.cut(values, bins=n_bins) computes, in units of 1/(1000*n_bins):
\* n_bins equal-width intervals over [min, max], the first edge lowered by
\* 0.1% of the range; a constant column gets its end points moved apart by
\* 0.1% of their size first.
BinEdges(sorted, n_bins) ==
    LET mn == sorted[1]
        mx == sorted[Len(sorted)]
        adj(v) == IF v = 0 THEN 1 ELSE IF v < 0 THEN -v ELSE v
    IN  IF mn = mx
        THEN [k \in 1..(n_bins + 1) |->
                n_bins * (1000 * mn - adj(mn))
                    + (k - 1) * ((1000 * mx + adj(mx)) - (1000 * mn - adj(mn)))]
        ELSE [k \in 1..(n_bins + 1) |->
                n_bins * 1000 * mn + (k - 1) * 1000 * (mx - mn)
                    - (IF k = 1 THEN n_bins * (mx - mn) ELSE 0)]

\* the bin of one value: the index of the right-closed interval that holds
\* it, NA outside the edges; include_lowest also puts the first edge itself
\* into bin 0
CutCell(v, bin_edges, include_lowest) ==
    IF include_lowest /\ v = bin_edges[1] THEN 0
    ELSE IF \E k \in 1..(Len(bin_edges) - 1) : bin_edges[k] < v /\ v <= bin_edges[k + 1]
         THEN (CHOOSE k \in 1..(Len(bin_edges) - 1) :
                    bin_edges[k] < v /\ v <= bin_edges[k + 1]) - 1
         ELSE NA

\* pd.cut(df[col], bins=bin_edges, labels=False)
Cut(col, bin_edges, include_lowest) ==
    [r \in DOMAIN col |->
        IF col[r] = NA THEN NA
        ELSE CutCell(1000 * (Len(bin_edges) - 1) * col[r], bin_edges, include_lowest)]

\* pd.cut(values, bins=n_bins) raises ValueError for a count below one
CutRaises(n_bins) == n_bins < 1

RECURSIVE BinnedVersionsStoppingAtShort(_, _, _, _, _)
BinnedVersionsStoppingAtShort(cfg, df, col, k, acc) ==
    IF k > Len(cfg.n_bins_options) THEN acc
    ELSE LET n_bins == cfg.n_bins_options[k]
             binned_col == col \o "_binned_" \o ToString(n_bins)
             valid_values == Valid(df, col)
         IN  IF Len(valid_values) < n_bins THEN acc
             ELSE BinnedVersionsStoppingAtShort(cfg, df, col, k + 1,
                IF ~CutRaises(n_bins)
                THEN LET bins == BinEdges(SortAsc(valid_values), n_bins)
                     IN  [table |-> AddColumn(acc.table, binned_col,
                                              Cut(df.data[col], bins, FALSE)),
                          mapping |-> Put(acc.mapping, col,
                                          Append(acc.mapping[col], binned_col)),
                          stats |-> Put(acc.stats, binned_col,
                                        [type |-> "binned", n_bins |-> n_bins,
                                         bin_edges |-> bins])]
                ELSE acc)

\* the loop over n_bins_options for one column: a binned version for every
\* option the column has enough valid values for, unless pd.cut raises, which
\* the except branch turns into a warning
RECURSIVE BinnedVersions(_, _, _, _, _)
BinnedVersions(cfg, df, col, k, acc) ==
    IF k > Len(cfg.n_bins_options) THEN acc
    ELSE LET n_bins == cfg.n_bins_options[k]
             binned_col == col \o "_binned_" \o ToString(n_bins)
             valid_values == Valid(df, col)
         IN  BinnedVersions(cfg, df, col, k + 1,
                IF Len(valid_values) >= n_bins /\ ~CutRaises(n_bins)
                THEN LET bins == BinEdges(SortAsc(valid_values), n_bins)
                     IN  [table |-> AddColumn(acc.table, binned_col,
                                              Cut(df.data[col], bins, FALSE)),
                          mapping |-> Put(acc.mapping, col,
                                          Append(acc.mapping[col], binned_col)),
                          stats |-> Put(acc.stats, binned_col,
                                        [type |-> "binned", n_bins |-> n_bins,
                                         bin_edges |-> bins])]
                ELSE acc)

\* the loop of fit_transform_numerical over cols_to_transform
RECURSIVE TransformNumericalCols(_, _, _, _, _)
TransformNumericalCols(cfg, df, cols, i, acc) ==
    IF i > Len(cols) THEN acc
    ELSE LET col == cols[i]
             capped_col == col \o "_capped"
             sorted == SortAsc(Valid(df, col))
             lower == Percentile(sorted, cfg.cap_percentiles[1])
             upper == Percentile(sorted, cfg.cap_percentiles[2])
         IN  TransformNumericalCols(cfg, df, cols, i + 1,
                BinnedVersions(cfg, df, col, 1,
                    [table |-> AddColumn(acc.table, capped_col,
                                         Clip(df.data[col], lower, upper)),
                     mapping |-> Put(acc.mapping, col, <<capped_col>>),
                     stats |-> Put(acc.stats, capped_col,
                                   [type |-> "capped", lower |-> lower,
                                    upper |-> upper])]))

\* "for col in binary_cols: self.feature_mapping[col] = [col]"; the
\* categorical method keeps an entry the column already has
RECURSIVE MarkBinary(_, _, _, _)
MarkBinary(binary_cols, i, mapping, keep_existing) ==
    IF i > Len(binary_cols) THEN mapping
    ELSE MarkBinary(binary_cols, i + 1,
            IF keep_existing /\ binary_cols[i] \in DOMAIN mapping THEN mapping
            ELSE Put(mapping, binary_cols[i], <<binary_cols[i]>>),
            keep_existing)

\* fit_transform_numerical(df, numerical_cols, target_col) on the instance
\* self: the new fields of the instance and the table it returns
FitTransformNumericalOn(self, cfg, df, numerical_cols, target) ==
    LET new_target == IF target # None THEN target ELSE self.target_col
        detected == DetectBinaryFeatures(df, numerical_cols, 1,
                        [binary |-> <<>>, stats |-> self.transform_stats])
        cols_to_transform == ColsToTransform(numerical_cols, new_target, detected.binary)
        out == TransformNumericalCols(cfg, df, cols_to_transform, 1,
                  [table |-> df,
                   mapping |-> MarkBinary(detected.binary, 1, self.feature_mapping, FALSE),
                   stats |-> detected.stats])
    IN  [target_col |-> new_target,
         binary_features |-> self.binary_features \o detected.binary,
         feature_mapping |-> out.mapping,
         transform_stats |-> out.stats,
         table |-> out.table]

\* value_counts(): the categories by falling count, ties in order of first
\* appearance
RECURSIVE InsertByCount(_, _, _)
InsertByCount(col, order, cat) ==
    LET count(c) == Cardinality({r \in DOMAIN col : col[r] = c})
    IN  IF order = <<>> THEN <<cat>>
        ELSE IF count(Head(order)) >= count(cat)
             THEN <<Head(order)>> \o InsertByCount(col, Tail(order), cat)
             ELSE <<cat>> \o order

RECURSIVE ValueCountsFrom(_, _, _, _)
ValueCountsFrom(col, cats, i, order) ==
    IF i > Len(cats) THEN order
    ELSE ValueCountsFrom(col, cats, i + 1, InsertByCount(col, order, cats[i]))

ValueCounts(col) == ValueCountsFrom(col, Unique(col), 1, <<>>)

RareCategoriesInclusive(col, min_freq) ==
    SelectSeq(ValueCounts(col),
              LAMBDA c : Cardinality({r \in DOMAIN col : col[r] = c}) * 100
                            <= min_freq * Len(col))

\* freq[freq < min_category_freq].index.tolist(), min_freq a percentage
RareCategories(col, min_freq) ==
    SelectSeq(ValueCounts(col),
              LAMBDA c : Cardinality({r \in DOMAIN col : col[r] = c}) * 100
                            < min_freq * Len(col))

\* "_".join(names)
RECURSIVE Join(_)
Join(names) ==
    IF Len(names) = 1 THEN names[1] ELSE names[1] \o "_" \o Join(Tail(names))

\* the label of the group of rare categories
OtherLabel(rare_categories) ==
    Join(Take(rare_categories, IF Len(rare_categories) <= 3 THEN 3 ELSE 2)) \o "_other"

\* the loop of fit_transform_categorical over cols_to_transform
RECURSIVE TransformCategoricalCols(_, _, _, _, _)
TransformCategoricalCols(cfg, df, cols, i, acc) ==
    IF i > Len(cols) THEN acc
    ELSE LET col == cols[i]
             grouped_col == col \o "_grouped"
             rare_categories == RareCategories(Valid(df, col), cfg.min_category_freq)
             category_mapping ==
                [cat \in Range(Valid(df, col)) |->
                    IF cat \in Range(rare_categories) THEN OtherLabel(rare_categories)
                    ELSE cat]
         IN  TransformCategoricalCols(cfg, df, cols, i + 1,
                IF rare_categories # <<>>
                THEN [table |-> AddColumn(acc.table, grouped_col,
                                    [r \in DOMAIN df.data[col] |->
                                        IF df.data[col][r] \in DOMAIN category_mapping
                                        THEN category_mapping[df.data[col][r]]
                                        ELSE MissingCategory]),
                      mapping |-> Put(acc.mapping, col, <<grouped_col>>),
                      stats |-> Put(acc.stats, grouped_col,
                                    [type |-> "categorical_grouped",
                                     mapping |-> category_mapping,
                                     rare_categories |-> rare_categories,
                                     min_freq |-> cfg.min_category_freq])]
                ELSE [table |-> acc.table,
                      mapping |-> Put(acc.mapping, col, <<col>>),
                      stats |-> acc.stats])

\* fit_transform_categorical(df, categorical_cols, target_col) on the
\* instance self: the new fields of the instance and the table it returns
FitTransformCategoricalOn(self, cfg, df, categorical_cols, target) ==
    LET new_target == IF target # None THEN target ELSE self.target_col
        detected == DetectBinaryFeatures(df, categorical_cols, 1,
                        [binary |-> <<>>, stats |-> self.transform_stats])
        cols_to_transform == ColsToTransform(categorical_cols, new_target, detected.binary)
        out == TransformCategoricalCols(cfg, df, cols_to_transform, 1,
                  [table |-> df,
                   mapping |-> MarkBinary(detected.binary, 1, self.feature_mapping, TRUE),
                   stats |-> detected.stats])
    IN  [target_col |-> new_target,
         binary_features |-> self.binary_features \o detected.binary,
         feature_mapping |-> out.mapping,
         transform_stats |-> out.stats,
         table |-> out.table]

----------------------------------------------------------------------------
(* FeatureEngineer: transform_numerical and transform_categorical *)

NoTable == [columns |-> <<>>, numeric |-> {}, data |-> <<>>]

\* the loop over feature_mapping[col] in transform_numerical
RECURSIVE ReplayNumerical(_, _, _, _, _)
ReplayNumerical(self, df, col, j, table) ==
    IF j > Len(self.feature_mapping[col]) THEN [raised |-> None, table |-> table]
    ELSE LET transformed_col == self.feature_mapping[col][j]
         IN  IF transformed_col \notin DOMAIN self.transform_stats
             THEN [raised |-> Some("KeyError"), table |-> NoTable]
             ELSE LET stats == self.transform_stats[transformed_col]
                  IN  ReplayNumerical(self, df, col, j + 1,
                        IF stats.type = "capped"
                        THEN AddColumn(table, transformed_col,
                                       Clip(df.data[col], stats.lower, stats.upper))
                        ELSE IF stats.type = "binned"
                        THEN AddColumn(table, transformed_col,
                                       Cut(df.data[col], stats.bin_edges, TRUE))
                        ELSE table)

RECURSIVE TransformNumericalSkippingUnfitted(_, _, _, _, _)
TransformNumericalSkippingUnfitted(self, df, numerical_cols, i, table) ==
    IF i > Len(numerical_cols) THEN [raised |-> None, table |-> table]
    ELSE IF numerical_cols[i] \notin DOMAIN self.feature_mapping
    THEN TransformNumericalSkippingUnfitted(self, df, numerical_cols, i + 1, table)
    ELSE LET done == ReplayNumerical(self, df, numerical_cols[i], 1, table)
         IN  IF done.raised # None THEN done
             ELSE TransformNumericalSkippingUnfitted(self, df, numerical_cols, i + 1,
                                                     done.table)

\* transform_numerical(df, numerical_cols) on the instance self
RECURSIVE TransformNumericalOn(_, _, _, _, _)
TransformNumericalOn(self, df, numerical_cols, i, table) ==
    IF i > Len(numerical_cols) THEN [raised |-> None, table |-> table]
    ELSE IF numerical_cols[i] \notin DOMAIN self.feature_mapping
    THEN [raised |-> Some("ValueError"), table |-> NoTable]
    ELSE LET done == ReplayNumerical(self, df, numerical_cols[i], 1, table)
         IN  IF done.raised # None THEN done
             ELSE TransformNumericalOn(self, df, numerical_cols, i + 1, done.table)

RECURSIVE ReplayCategoricalStrict(_, _, _, _, _)
ReplayCategoricalStrict(self, df, col, j, table) ==
    IF j > Len(self.feature_mapping[col]) THEN [raised |-> None, table |-> table]
    ELSE LET transformed_col == self.feature_mapping[col][j]
         IN  IF transformed_col = col
             THEN ReplayCategoricalStrict(self, df, col, j + 1, table)
             ELSE IF \/ transformed_col \notin DOMAIN self.transform_stats
                     \/ "mapping" \notin DOMAIN self.transform_stats[transformed_col]
                     \/ \E r \in DOMAIN df.data[col] :
                           df.data[col][r] \notin
                               DOMAIN self.transform_stats[transformed_col].mapping
             THEN [raised |-> Some("KeyError"), table |-> NoTable]
             ELSE LET stats == self.transform_stats[transformed_col]
                  IN  ReplayCategoricalStrict(self, df, col, j + 1,
                        AddColumn(table, transformed_col,
                            [r \in DOMAIN df.data[col] |->
                                stats.mapping[df.data[col][r]]]))

\* the loop over feature_mapping[col] in transform_categorical: a category
\* the mapping does not have gets the default label
RECURSIVE ReplayCategorical(_, _, _, _, _)
ReplayCategorical(self, df, col, j, table) ==
    IF j > Len(self.feature_mapping[col]) THEN [raised |-> None, table |-> table]
    ELSE LET transformed_col == self.feature_mapping[col][j]
         IN  IF transformed_col = col
             THEN ReplayCategorical(self, df, col, j + 1, table)
             ELSE IF \/ transformed_col \notin DOMAIN self.transform_stats
                     \/ "mapping" \notin DOMAIN self.transform_stats[transformed_col]
             THEN [raised |-> Some("KeyError"), table |-> NoTable]
             ELSE LET stats == self.transform_stats[transformed_col]
                      default_label ==
                        IF stats.rare_categories # <<>>
                        THEN stats.rare_categories[1] \o "_other"
                        ELSE "unknown"
                  IN  ReplayCategorical(self, df, col, j + 1,
                        AddColumn(table, transformed_col,
                            [r \in DOMAIN df.data[col] |->
                                IF df.data[col][r] \in DOMAIN stats.mapping
                                THEN stats.mapping[df.data[col][r]]
                                ELSE default_label]))

\* transform_categorical(df, categorical_cols) on the instance self
RECURSIVE TransformCategoricalOn(_, _, _, _, _)
TransformCategoricalOn(self, df, categorical_cols, i, table) ==
    IF i > Len(categorical_cols) THEN [raised |-> None, table |-> table]
    ELSE IF categorical_cols[i] \notin DOMAIN self.feature_mapping
    THEN [raised |-> Some("ValueError"), table |-> NoTable]
    ELSE LET done == ReplayCategorical(self, df, categorical_cols[i], 1, table)
         IN  IF done.raised # None THEN done
             ELSE TransformCategoricalOn(self, df, categorical_cols, i + 1, done.table)

----------------------------------------------------------------------------
(* FeatureEngineer: actions *)

\* FeatureEngineer(config)
EngineerInit ==
    /\ engineer_config \in {Some(cfg) : cfg \in EngineerConfigs}
    /\ transform_stats = <<>>
    /\ feature_mapping = <<>>
    /\ binary_features = <<>>
    /\ target_col = None
    /\ engineer_fits = 0
    /\ engineer_fitted = None
    /\ engineer_result = [call |-> "none", df |-> NoTable, target |-> None,
                          cols |-> <<>>, raised |-> None, table |-> NoTable]

\* the tables transform_numerical and transform_categorical are called on: a
\* held-out table, or the table of the last fit_transform call once more
ReplayTables ==
    HeldOutTables \cup (IF engineer_fitted = None THEN {} ELSE {engineer_fitted[1].df})

\* the fields of the instance
EngineerSelf ==
    [target_col |-> target_col, binary_features |-> binary_features,
     feature_mapping |-> feature_mapping, transform_stats |-> transform_stats]

\* fit_transform_numerical(df, numerical_cols, target_col=target)
FitTransformNumerical ==
    /\ /\ engineer_fits < MaxEngineerFits
       /\ \E df \in EngineerTables,
             numerical_cols \in {<<"x", "y">>, <<"x", "y", "t">>},
             target \in {None, Some("t")} :
          \E out \in {FitTransformNumericalOn(EngineerSelf, engineer_config[1], df,
                                              numerical_cols, target)} :
            /\ target_col' = out.target_col
            /\ binary_features' = out.binary_features
            /\ feature_mapping' = out.feature_mapping
            /\ transform_stats' = out.transform_stats
            /\ engineer_fits' = engineer_fits + 1
            /\ engineer_fitted' = Some([call |-> "fit_transform_numerical", df |-> df,
                                         cols |-> numerical_cols, table |-> out.table])
            /\ engineer_result' = [call |-> "fit_transform_numerical", df |-> df,
                                   target |-> target, cols |-> numerical_cols, raised |-> None,
                                   table |-> out.table]
            /\ UNCHANGED engineer_config
    /\ UNCHANGED <<selectorVars, filterVars>>

\* fit_transform_categorical(df, categorical_cols, target_col=target)
FitTransformCategorical ==
    /\ /\ engineer_fits < MaxEngineerFits
       /\ \E df \in EngineerTables,
             categorical_cols \in {<<"z">>},
             target \in {None, Some("t"), Some("z")} :
          \E out \in {FitTransformCategoricalOn(EngineerSelf, engineer_config[1], df,
                                                categorical_cols, target)} :
            /\ target_col' = out.target_col
            /\ binary_features' = out.binary_features
            /\ feature_mapping' = out.feature_mapping
            /\ transform_stats' = out.transform_stats
            /\ engineer_fits' = engineer_fits + 1
            /\ engineer_fitted' = Some([call |-> "fit_transform_categorical", df |-> df,
                                         cols |-> categorical_cols, table |-> out.table])
            /\ engineer_result' = [call |-> "fit_transform_categorical", df |-> df,
                                   target |-> target, cols |-> categorical_cols, raised |-> None,
                                   table |-> out.table]
            /\ UNCHANGED engineer_config
    /\ UNCHANGED <<selectorVars, filterVars>>

\* transform_numerical(df, numerical_cols)
TransformNumerical ==
    /\ \E df \in ReplayTables, numerical_cols \in {<<"x", "y">>, <<"x", "y", "t">>} :
       \E out \in {TransformNumericalOn(EngineerSelf, df, numerical_cols, 1, df)} :
         /\ engineer_result' = [call |-> "transform_numerical", df |-> df,
                                target |-> None, cols |-> numerical_cols, raised |-> out.raised,
                                table |-> out.table]
         /\ UNCHANGED <<engineer_config, transform_stats, feature_mapping,
                        binary_features, target_col, engineer_fits,
                        engineer_fitted>>
    /\ UNCHANGED <<selectorVars, filterVars>>

\* transform_categorical(df, categorical_cols)
TransformCategorical ==
    /\ \E df \in ReplayTables, categorical_cols \in {<<"z">>} :
       \E out \in {TransformCategoricalOn(EngineerSelf, df, categorical_cols, 1, df)} :
         /\ engineer_result' = [call |-> "transform_categorical", df |-> df,
                                target |-> None, cols |-> categorical_cols, raised |-> out.raised,
                                table |-> out.table]
         /\ UNCHANGED <<engineer_config, transform_stats, feature_mapping,
                        binary_features, target_col, engineer_fits,
                        engineer_fitted>>
    /\ UNCHANGED <<selectorVars, filterVars>>

EngineerNext ==
    \/ FitTransformNumerical
    \/ FitTransformCategorical
    \/ TransformNumerical
    \/ TransformCategorical

\* a run that uses a FeatureEngineer only
EngineerRunInit == EngineerInit /\ SelectorIdle /\ FilterIdle

SpecEngineer == EngineerRunInit /\ [][EngineerNext]_vars

----------------------------------------------------------------------------
(* FeatureEngineer: properties *)

\* the last call was one of the two fit_transform methods
EngineerFitted ==
    engineer_result.call \in {"fit_transform_numerical", "fit_transform_categorical"}

\* the column has exactly two distinct non-missing values in the table
IsBinaryIn(df, col) == Len(Unique(Valid(df, col))) = 2

\* the names a derived version of col can have
DerivedNames(col) ==
    {col \o "_capped", col \o "_grouped"}
        \cup {col \o "_binned_" \o ToString(n) :
                n \in Range(engineer_config[1].n_bins_options)}

\* C9: the table a fit_transform call returns has no <col>_capped,
\* <col>_binned_<n> or <col>_grouped column for any column col of the given
\* table that has exactly two distinct non-missing values or is the
\* designated target column
C9_NoDerivedForBinaryOrTarget ==
    EngineerFitted =>
        \A col \in Range(engineer_result.df.columns) :
            (IsBinaryIn(engineer_result.df, col) \/ target_col = Some(col))
                => DerivedNames(col) \cap Range(engineer_result.table.columns) = {}

\* a numerical fit was given a binary column, the non-binary target and a
\* third column, and derived versions of the third column only
C9_Witness ==
    /\ engineer_result.call = "fit_transform_numerical"
    /\ engineer_result.cols = <<"x", "y", "t">>
    /\ IsBinaryIn(engineer_result.df, "x")
    /\ target_col = Some("t")
    /\ ~IsBinaryIn(engineer_result.df, "t")
    /\ "y_capped" \in Range(engineer_result.table.columns)
    /\ Len(engineer_result.table.columns) = Len(engineer_result.df.columns) + 2

\* the column has the identity entry in feature_mapping
HasIdentityMapping(col) ==
    col \in DOMAIN feature_mapping /\ feature_mapping[col] = <<col>>

\* C10 as claimed: after a fit_transform call every binary column passed to
\* it, and the designated target column when it is among the columns passed,
\* has feature_mapping[col] == [col]
C10_IdentityMappingForBinaryAndTarget ==
    EngineerFitted =>
        \A col \in Range(engineer_result.cols) :
            (IsBinaryIn(engineer_result.df, col) \/ target_col = Some(col))
                => HasIdentityMapping(col)

\* C11 as claimed: after a fit_transform call that was given the target both
\* among its columns and as target_col, the target is no key of
\* feature_mapping or is mapped to the empty list
C11_TargetAbsentFromMapping ==
    (/\ EngineerFitted
     /\ engineer_result.target # None
     /\ engineer_result.target[1] \in Range(engineer_result.cols))
        => \/ engineer_result.target[1] \notin DOMAIN feature_mapping
           \/ feature_mapping[engineer_result.target[1]] = <<>>

\* the last call replays the last fit_transform call: it is the matching
\* transform method, called on the same table with the same columns
IsReplay ==
    /\ engineer_fitted # None
    /\ engineer_result.call =
          (IF engineer_fitted[1].call = "fit_transform_numerical"
           THEN "transform_numerical" ELSE "transform_categorical")
    /\ engineer_result.df = engineer_fitted[1].df
    /\ engineer_result.cols = engineer_fitted[1].cols

\* the columns the last fit_transform call added to its table
DerivedColumns ==
    {c \in Range(engineer_fitted[1].table.columns) :
        c \notin Range(engineer_fitted[1].df.columns)}

\* C12 as claimed: a replay that returns a table has, for every derived
\* column of the fit_transform output, the same cell in every row, rows with
\* a missing value included
C12_ReplayReproducesFit ==
    (IsReplay /\ engineer_result.raised = None) =>
        \A c \in DerivedColumns :
            /\ c \in Range(engineer_result.table.columns)
            /\ engineer_result.table.data[c] = engineer_fitted[1].table.data[c]

\* the last call was fit_transform_numerical or transform_numerical and it
\* returned a table
NumericalReturned ==
    /\ engineer_result.call \in {"fit_transform_numerical", "transform_numerical"}
    /\ engineer_result.raised = None

\* the capped version of col was derived by the last fit_transform call
CappedByLastFit(col) ==
    /\ engineer_fitted # None
    /\ engineer_fitted[1].call = "fit_transform_numerical"
    /\ (col \o "_capped") \in DerivedColumns

\* every non-missing cell of the column, in hundredths, lies in [lower, upper]
CellsWithin(cells, lower, upper) ==
    \A r \in DOMAIN cells : cells[r] # NA => (lower <= cells[r] /\ cells[r] <= upper)

\* C13: in the table fit_transform_numerical or transform_numerical returns,
\* every non-missing value of a <col>_capped column lies between the lower
\* and upper bound stored for it; when the last fit_transform call derived the
\* column, the stored bounds are the configured percentiles of the
\* non-missing values of the table that call was given, whatever table the
\* transform is called on
C13_CappedWithinFitPercentiles ==
    NumericalReturned =>
        \A col \in Range(engineer_result.df.columns) :
            (col \o "_capped") \in Range(engineer_result.table.columns) =>
                /\ CellsWithin(engineer_result.table.data[col \o "_capped"],
                               transform_stats[col \o "_capped"].lower,
                               transform_stats[col \o "_capped"].upper)
                /\ CappedByLastFit(col) =>
                      /\ transform_stats[col \o "_capped"].lower =
                            Percentile(SortAsc(Valid(engineer_fitted[1].df, col)),
                                       engineer_config[1].cap_percentiles[1])
                      /\ transform_stats[col \o "_capped"].upper =
                            Percentile(SortAsc(Valid(engineer_fitted[1].df, col)),
                                       engineer_config[1].cap_percentiles[2])

\* transform_numerical was called on a held-out table whose column x has a
\* value below the lower and a value above the upper bound of the fit, and
\* both came out as the bound
C13_Witness ==
    /\ engineer_result.call = "transform_numerical"
    /\ engineer_result.raised = None
    /\ CappedByLastFit("x")
    /\ engineer_result.df # engineer_fitted[1].df
    /\ \E r \in EngRows :
          /\ 100 * engineer_result.df.data["x"][r] > transform_stats["x_capped"].upper
          /\ engineer_result.table.data["x_capped"][r] = transform_stats["x_capped"].upper
    /\ \E r \in EngRows :
          /\ engineer_result.df.data["x"][r] # NA
          /\ 100 * engineer_result.df.data["x"][r] < transform_stats["x_capped"].lower
          /\ engineer_result.table.data["x_capped"][r] = transform_stats["x_capped"].lower

----------------------------------------------------------------------------
(* The three components together: a run uses exactly one of them *)

SelectorInUse == fit_X # <<>>
EngineerInUse == engineer_config # None
FilterInUse == ~SelectorInUse /\ ~EngineerInUse

ComponentsRunInit == SelectorRunInit \/ FilterRunInit \/ EngineerRunInit

ComponentsNext ==
    \/ SelectorInUse /\ SelectorFit
    \/ SelectorInUse /\ SelectorTransform
    \/ FilterInUse /\ FilterConstruct
    \/ FilterInUse /\ FilterFit
    \/ FilterInUse /\ FilterTransform
    \/ EngineerInUse /\ FitTransformNumerical
    \/ EngineerInUse /\ FitTransformCategorical
    \/ EngineerInUse /\ TransformNumerical
    \/ EngineerInUse /\ TransformCategorical

SpecComponents == ComponentsRunInit /\ [][ComponentsNext]_vars

\* the last FeatureEngineer call was transform_numerical or
\* transform_categorical
EngineerTransformCalled ==
    EngineerInUse
        /\ engineer_result.call \in {"transform_numerical", "transform_categorical"}

\* C14: transform on a FeatureSelector or a FeatureFilter that was never
\* fitted, and transform_numerical / transform_categorical of a
\* FeatureEngineer asked for a column that is no key of feature_mapping,
\* raise an error and return no table
C14_UnfittedTransformFails ==
    /\ (selector_result.call = "transform" /\ ~SelectorFitted)
          => /\ selector_result.status = "ValueError"
             /\ "columns" \notin DOMAIN selector_result
    /\ (filter_result.call = "transform" /\ ~FilterFitted)
          => /\ filter_result.status = "ValueError"
             /\ "columns" \notin DOMAIN filter_result
    /\ (/\ EngineerTransformCalled
        /\ \E col \in Range(engineer_result.cols) : col \notin DOMAIN feature_mapping)
          => /\ engineer_result.raised = Some("ValueError")
             /\ engineer_result.table = NoTable

\* after a categorical fit only, transform_numerical is asked for numerical
\* columns, none of which was ever fitted, and raises
C14_Witness ==
    /\ EngineerTransformCalled
    /\ engineer_result.call = "transform_numerical"
    /\ engineer_fitted # None
    /\ DOMAIN feature_mapping = {"z"}
    /\ engineer_result.raised = Some("ValueError")
    /\ engineer_result.table = NoTable

----------------------------------------------------------------------------
(* FeatureSelector: a fit after a fit, methods that fail, aggregation *)

\* the last FeatureSelector call was fit
SelectorFitCalled == selector_result.call = "fit"

\* the scores the methods that succeeded in the last fit recorded in it
ScoresOfThisFit ==
    [m \in selector_result.succeeded \cap DOMAIN feature_scores |-> feature_scores[m]]

\* what _select_features computes from the scores of the last fit alone
SelectionOfThisFit ==
    SelectFeatures(selector_config, X_numeric, feature_names, ScoresOfThisFit)

\* C15 as claimed: after a fit, first or later, the per-method score table
\* holds the methods that succeeded in this call and no other, and the
\* aggregated scores, the selected list and the redundant list are those
\* computed from the scores of this call alone
C15_SecondFitOverwrites ==
    SelectorFitCalled =>
        /\ DOMAIN feature_scores = selector_result.succeeded
        /\ selected_features = SelectionOfThisFit.selected
        /\ removed_redundant = SelectionOfThisFit.redundant
        /\ feature_summary = SelectionOfThisFit.summary

\* the configured methods that raised or were unknown in the last fit
FailedMethods == Range(selector_config.methods) \ selector_result.succeeded

\* C16 as claimed: after a fit in which a configured method raised or had an
\* unknown name, the fit has completed, that method has no scores in the
\* table, every other configured method has, and the selection is the one
\* computed from the scores of the methods that succeeded
C16_FailedMethodSkipped ==
    (SelectorFitCalled /\ FailedMethods # {}) =>
        /\ selector_result.status = "ok"
        /\ FailedMethods \cap DOMAIN feature_scores = {}
        /\ selector_result.succeeded \subseteq DOMAIN feature_scores
        /\ selected_features = SelectionOfThisFit.selected
        /\ removed_redundant = SelectionOfThisFit.redundant

\* the scores the methods that succeeded in the last fit recorded for a feature
ScoresOfThisFitFor(feature) ==
    ScoresOf(ScoresOfThisFit, DOMAIN ScoresOfThisFit, feature)

\* C17 as claimed: after a fit, the aggregated score of a column is the mean
\* of its scores over the methods that recorded one in this fit, and a column
\* no method scored in this fit has no aggregated score (the summary shows 0)
\* and is not selected
C17_AggregatedIsMeanOfThisFit ==
    SelectorFitCalled =>
        \A f \in Range(feature_names) :
            LET s == ScoresOfThisFitFor(f)
                a == feature_summary[f].aggregated_score
            IN  IF s = <<>>
                THEN f \notin Range(selected_features) /\ a.num = 0
                ELSE IF NaNScore \in Range(s) THEN a = NaN
                ELSE a.den # 0 /\ a.num * Len(s) = SeqSum(s) * a.den

----------------------------------------------------------------------------
(* FeatureSelector: the order of the greedy pass, the threshold *)

\* the aggregated scores the last fit selected with
AggregatedOfFit == AggregatedScores(feature_scores, feature_names)

\* C18 as claimed: after a fit, of two candidates the one visited first has
\* the aggregated score that is greater, or the same score and the earlier
\* position in feature_names; the selected list is the greedy pass over the
\* candidates in that order
C18_DescendingStableOrder ==
    SelectorFitted =>
        /\ \A i, j \in DOMAIN Candidates :
              i < j =>
                LET a == AggregatedOfFit[Candidates[i]]
                    b == AggregatedOfFit[Candidates[j]]
                IN  /\ a # NaN /\ b # NaN
                    /\ a.num * b.den >= b.num * a.den
                    /\ (a.num * b.den = b.num * a.den) =>
                          IndexOf(feature_names, Candidates[i])
                              < IndexOf(feature_names, Candidates[j])
        /\ selected_features =
              GreedyFrom(selector_config, X_numeric, feature_names,
                         AggregatedOfFit, Candidates, 1,
                         [selected |-> <<>>, redundant |-> <<>>,
                          details |-> <<>>]).selected

\* score >= threshold as a comparison of numbers: False for a nan score
AtLeastThreshold(cfg, score) ==
    score # NaN /\ score.num >= cfg.threshold[1] * score.den

\* the candidates from rank i on
RankedFrom(i) == {Candidates[j] : j \in {k \in DOMAIN Candidates : k >= i}}

\* the candidates up to rank i
RankedUpTo(i) == {Candidates[j] : j \in {k \in DOMAIN Candidates : k <= i}}

\* C19 as claimed: after a fit with a threshold, every selected feature has
\* an aggregated score >= threshold; no candidate ranked at or after the
\* first one below the threshold is selected or recorded as redundant; and
\* with no top_k every candidate ranked before it is one or the other, a
\* score equal to the threshold included
C19_ThresholdStopsPass ==
    (SelectorFitted /\ selector_config.threshold # None) =>
        /\ \A f \in Range(selected_features) :
              AtLeastThreshold(selector_config, AggregatedOfFit[f])
        /\ \A i \in DOMAIN Candidates :
              BelowThreshold(selector_config, AggregatedOfFit[Candidates[i]]) =>
                  RankedFrom(i) \cap (Range(selected_features)
                                         \cup Range(removed_redundant)) = {}
        /\ selector_config.top_k = None =>
              \A i \in DOMAIN Candidates :
                  (\A f \in RankedUpTo(i) :
                      ~BelowThreshold(selector_config, AggregatedOfFit[f])) =>
                      Candidates[i] \in Range(selected_features)
                                            \cup Range(removed_redundant)

----------------------------------------------------------------------------
(* FeatureSelector: what is recorded about a redundant feature *)

\* the selected features whose correlation with f is a number above the limit
Colliding(f) == {g \in Range(selected_features) : CorrAboveLimit(f, g)}

\* the one of them that was accepted first
EarliestColliding(f) ==
    CHOOSE g \in Colliding(f) :
        \A h \in Colliding(f) :
            IndexOf(selected_features, g) <= IndexOf(selected_features, h)

----------------------------------------------------------------------------
(* FeatureSelector: a pass with no top_k and no threshold *)

\* C21: after a fit with neither top_k nor threshold, the features that have
\* an aggregated score are the selected ones together with the redundant ones
C21_UnboundedPassExhaustsCandidates ==
    (SelectorFitted /\ selector_config.top_k = None
                    /\ selector_config.threshold = None) =>
        DOMAIN AggregatedOfFit
            = Range(selected_features) \cup Range(removed_redundant)

\* C21 witness: neither criterion is configured, the candidate ranked second
\* was rejected as redundant and the one ranked third was selected after it
C21_Witness ==
    /\ SelectorFitted
    /\ selector_config.top_k = None
    /\ selector_config.threshold = None
    /\ Len(Candidates) >= 3
    /\ Candidates[2] \in Range(removed_redundant)
    /\ Candidates[3] \in Range(selected_features)

----------------------------------------------------------------------------
(* FeatureEngineer: the versions derived from a numerical column *)

\* the names of the binned versions of col, in the order of n_bins_options
\* from option k on: one for every count the column has enough non-missing
\* values for and, with only_accepted, pd.cut accepts
RECURSIVE BinnedNamesFrom(_, _, _, _)
BinnedNamesFrom(df, col, k, only_accepted) ==
    LET options == engineer_config[1].n_bins_options
    IN  IF k > Len(options) THEN <<>>
        ELSE (IF /\ Len(Valid(df, col)) >= options[k]
                 /\ (only_accepted => ~CutRaises(options[k]))
              THEN <<col \o "_binned_" \o ToString(options[k])>>
              ELSE <<>>)
             \o BinnedNamesFrom(df, col, k + 1, only_accepted)

\* after fit_transform_numerical, every column passed that is neither binary
\* nor the target has in feature_mapping its capped version followed by the
\* binned versions named, and the returned table has these versions of it
\* and no other
DerivedAsListed(only_accepted) ==
    engineer_result.call = "fit_transform_numerical" =>
        /\ engineer_result.raised = None
        /\ \A col \in Range(engineer_result.cols) :
              (~IsBinaryIn(engineer_result.df, col) /\ target_col # Some(col)) =>
                LET listed == <<col \o "_capped">>
                                \o BinnedNamesFrom(engineer_result.df, col, 1,
                                                   only_accepted)
                IN  /\ col \in DOMAIN feature_mapping
                    /\ feature_mapping[col] = listed
                    /\ DerivedNames(col) \cap Range(engineer_result.table.columns)
                          = Range(listed)

\* C22 as claimed: the versions derived from a non-binary, non-target
\* numerical column are the capped one and a binned one for exactly the
\* configured counts n with at least n non-missing values in the column
C22_BinnedForEveryLongEnoughCount == DerivedAsListed(FALSE)

\* C22 as amended: the versions derived are the capped one and a binned one
\* for exactly the configured counts n with at least n non-missing values for
\* which pd.cut does not raise; a count it raises for (n < 1) is skipped like
\* a count the column is too short for, and feature_mapping[col] lists the
\* versions created, in creation order
C22_BinnedForEveryAcceptedCount == DerivedAsListed(TRUE)

\* C22 witness: a numerical fit on a column with a missing cell: the first
\* count is skipped as too large, the second because pd.cut raises, and the
\* capped version and the version for the third count are made
C22_Witness ==
    /\ engineer_result.call = "fit_transform_numerical"
    /\ ~IsBinaryIn(engineer_result.df, "y")
    /\ target_col # Some("y")
    /\ Len(Valid(engineer_result.df, "y")) < engineer_config[1].n_bins_options[1]
    /\ CutRaises(engineer_config[1].n_bins_options[2])
    /\ feature_mapping["y"] = <<"y_capped", "y_binned_2">>
    /\ {"y_capped", "y_binned_2"} \subseteq Range(engineer_result.table.columns)

----------------------------------------------------------------------------
(* FeatureEngineer: replay of bin edges on values outside them *)

\* the binned versions of col that transform_numerical has put in its table
BinnedReplayed(col) ==
    {c \in Range(feature_mapping[col]) :
        /\ c \in DOMAIN transform_stats
        /\ transform_stats[c].type = "binned"
        /\ c \in Range(engineer_result.table.columns)}

\* a value of the table in the unit of the edges
InEdgeUnits(v, bin_edges) == 1000 * (Len(bin_edges) - 1) * v

\* C23 as claimed: in the table transform_numerical returns, a value below
\* the lowest fitted edge is in the first bin and a value above the highest
\* fitted edge is in the last bin
C23_OutsideEdgesClamped ==
    (engineer_result.call = "transform_numerical" /\ engineer_result.raised = None) =>
        \A col \in Range(engineer_result.cols) :
          \A c \in BinnedReplayed(col) :
            \A r \in DOMAIN engineer_result.df.data[col] :
                LET v == engineer_result.df.data[col][r]
                    bin_edges == transform_stats[c].bin_edges
                    last == Len(bin_edges)
                IN  v # NA =>
                      /\ InEdgeUnits(v, bin_edges) < bin_edges[1]
                            => engineer_result.table.data[c][r] = 0
                      /\ InEdgeUnits(v, bin_edges) > bin_edges[last]
                            => engineer_result.table.data[c][r] = last - 2

----------------------------------------------------------------------------
(* FeatureEngineer: grouping of rare categories *)

\* the categories of the column whose share of the non-missing cells is
\* strictly below min_category_freq (a percentage)
RareIn(df, col) ==
    LET valid == Valid(df, col)
    IN  {c \in Range(valid) :
            Cardinality({r \in DOMAIN valid : valid[r] = c}) * 100
                < engineer_config[1].min_category_freq * Len(valid)}

\* the labels the claim allows for a set of rare categories: all names joined
\* when there are at most three, two of them when there are more
GroupLabels(rare) ==
    LET n == IF Cardinality(rare) <= 3 THEN Cardinality(rare) ELSE 2
    IN  {Join(p) \o "_other" :
            p \in {q \in [1..n -> rare] : \A i, j \in 1..n : q[i] = q[j] => i = j}}

\* C24: after fit_transform_categorical, for every column passed that is
\* neither binary nor the target: with no rare category there is no grouped
\* column and feature_mapping[col] == [col]; with one or more there is one
\* grouped column, listed alone in feature_mapping[col], that holds one of
\* the labels for every rare category and the category itself for every
\* other one
C24_RareCategoriesGrouped ==
    engineer_result.call = "fit_transform_categorical" =>
        \A col \in Range(engineer_result.cols) :
            (~IsBinaryIn(engineer_result.df, col) /\ target_col # Some(col)) =>
                LET rare == RareIn(engineer_result.df, col)
                    grouped_col == col \o "_grouped"
                    cells == engineer_result.df.data[col]
                    out == engineer_result.table
                IN  IF rare = {}
                    THEN /\ feature_mapping[col] = <<col>>
                         /\ grouped_col \notin Range(out.columns)
                    ELSE /\ feature_mapping[col] = <<grouped_col>>
                         /\ grouped_col \in Range(out.columns)
                         /\ \E label \in GroupLabels(rare) :
                               \A r \in DOMAIN cells :
                                   cells[r] # MissingCategory =>
                                       out.data[grouped_col][r] =
                                           (IF cells[r] \in rare THEN label
                                            ELSE cells[r])

\* C24 witness: a fit with min_category_freq = 0.30 on a column with three
\* single-row categories and a frequent one: the three share the label made
\* of all three names and the frequent one is kept
C24_Witness ==
    /\ engineer_result.call = "fit_transform_categorical"
    /\ target_col # Some("z")
    /\ Cardinality(RareIn(engineer_result.df, "z")) = 3
    /\ feature_mapping["z"] = <<"z_grouped">>
    /\ \E r \in EngRows : engineer_result.table.data["z_grouped"][r] = "b_c_d_other"
    /\ \E r \in EngRows : engineer_result.table.data["z_grouped"][r] = "a"

----------------------------------------------------------------------------
(* FeatureEngineer: replay of a grouping on categories not seen at fit time *)

\* transform_categorical was called with columns that all have an entry in
\* feature_mapping
CategoricalReplayOfFitted ==
    /\ engineer_result.call = "transform_categorical"
    /\ Range(engineer_result.cols) \subseteq DOMAIN feature_mapping

\* the grouped versions feature_mapping lists for col
GroupedOf(col) == {c \in Range(feature_mapping[col]) : c # col}

\* C25: transform_categorical on fitted columns returns a table, whatever
\* categories the columns hold; in every grouped column a category the
\* fitted mapping has is mapped as the mapping says, and the others are all
\* mapped to one label, the name of a rare category of the fit followed by
\* "_other"
C25_UnseenCategoryGetsFallback ==
    CategoricalReplayOfFitted =>
        /\ engineer_result.raised = None
        /\ \A col \in Range(engineer_result.cols) :
             \A c \in GroupedOf(col) :
                LET mapping == transform_stats[c].mapping
                    cells == engineer_result.df.data[col]
                    out == engineer_result.table.data[c]
                IN  /\ \A r \in DOMAIN cells :
                          cells[r] \in DOMAIN mapping => out[r] = mapping[cells[r]]
                    /\ \E rare \in Range(transform_stats[c].rare_categories) :
                          \A r \in DOMAIN cells :
                              cells[r] \notin DOMAIN mapping
                                  => out[r] = rare \o "_other"

\* C25 witness: a held-out table with a category the fit did not see is
\* replayed: the new category gets the fallback label, a rare category of
\* the fit its group label and the frequent category itself
C25_Witness ==
    /\ CategoricalReplayOfFitted
    /\ engineer_result.raised = None
    /\ GroupedOf("z") = {"z_grouped"}
    /\ \E r \in EngRows :
          /\ engineer_result.df.data["z"][r] = "new"
          /\ engineer_result.table.data["z_grouped"][r] = "b_other"
    /\ \E r \in EngRows :
          /\ engineer_result.df.data["z"][r] = "c"
          /\ engineer_result.table.data["z_grouped"][r] = "b_c_other"
    /\ \E r \in EngRows :
          /\ engineer_result.df.data["z"][r] = "a"
          /\ engineer_result.table.data["z_grouped"][r] = "a"

----------------------------------------------------------------------------
(* FeatureFilter: the cardinality caps *)

\* the cap of the column's type
CardinalityCap(c) ==
    IF c \in FitTable.numeric THEN filter_config[1].max_cardinality_numeric
    ELSE filter_config[1].max_cardinality_categorical

\* C26 as claimed: after fit, a column removed for high cardinality has a
\* distinct-value count strictly greater than the cap of its type, so a
\* column whose count equals the cap is not removed for high cardinality
C26_CardinalityCapStrict ==
    FilterFitted =>
        \A c \in FitCandidates :
            c \in Range(removed_features["high_cardinality"])
                => NUnique(FitTable.data[c]) > CardinalityCap(c)

----------------------------------------------------------------------------
(* FeatureFilter and FeatureSelector: transform after a fit that kept nothing *)

\* C27 as claimed: once fit has completed on a filter or a selector, a
\* transform on it does not raise the not-fitted ValueError, also when the
\* fit kept or selected no column
C27_TransformAfterFitNotRejected ==
    /\ (FilterFitted /\ filter_result.call = "transform")
          => filter_result.status # "ValueError"
    /\ (SelectorFitted /\ selector_result.call = "transform")
          => selector_result.status # "ValueError"

----------------------------------------------------------------------------
(* FeatureEngineer: a column that is binary in a later fit *)

\* the columns of the last fit_transform call that were binary in its table
BinaryInLastFit ==
    {col \in Range(engineer_fitted[1].cols) : IsBinaryIn(engineer_fitted[1].df, col)}

\* C28 as claimed: once a fit_transform call has been made, every column
\* that was binary in the last one has feature_mapping[col] == [col],
\* whatever an earlier fit derived for it, and a transform that returns a
\* table adds no derived version of it
C28_BinaryInLatestFitKeptAsIs ==
    engineer_fitted # None =>
        \A col \in BinaryInLastFit :
            /\ HasIdentityMapping(col)
            /\ (/\ engineer_result.call \in {"transform_numerical",
                                              "transform_categorical"}
                 /\ engineer_result.raised = None)
                  => \A c \in DerivedNames(col) :
                        c \in Range(engineer_result.table.columns)
                            => c \in Range(engineer_result.df.columns)

----------------------------------------------------------------------------
(* FeatureEngineer: transform with the column list of the fit *)

\* the last call is the transform method that matches the last fit_transform
\* call, with the same column list, on any table
TransformWithFittedColumns ==
    /\ engineer_fitted # None
    /\ engineer_result.call =
          (IF engineer_fitted[1].call = "fit_transform_numerical"
           THEN "transform_numerical" ELSE "transform_categorical")
    /\ engineer_result.cols = engineer_fitted[1].cols

\* C29 as claimed: a transform with the column list of the last fit_transform
\* call returns a table, also when the list holds the target column
C29_TransformWithFittedColumnsSucceeds ==
    TransformWithFittedColumns => engineer_result.raised = None

\* the labels the fitted mapping of a grouped column maps to
FittedLabels(c) ==
    {transform_stats[c].mapping[cat] : cat \in DOMAIN transform_stats[c].mapping}

\* C30 as claimed: in the table transform_categorical returns, every
\* non-missing value of a grouped column is one of the labels the fitted
\* mapping maps to, the value given to a category unseen at fit time included
C30_ReplayStaysInFittedLabels ==
    (CategoricalReplayOfFitted /\ engineer_result.raised = None) =>
        \A col \in Range(engineer_result.cols) :
            \A c \in GroupedOf(col) :
                \A r \in DOMAIN engineer_result.table.data[c] :
                    engineer_result.table.data[c][r] # MissingCategory
                        => engineer_result.table.data[c][r] \in FittedLabels(c)

====
